---- MODULE Spec2Model ----
(***************************************************************************)
(* A model of the coordination core of life-coach-ai:                      *)
(* src/src/core/orchestrator.py (AgentOrchestrator) and                    *)
(* src/src/core/base_agent.py (BaseAgent).                                 *)
(*                                                                         *)
(* Python values are modelled as follows.                                  *)
(*   - a worker (BaseAgent) is a record                                    *)
(*       [agent_id, expertise_domains, confidence_threshold, reply];       *)
(*   - a dict is a function whose DOMAIN is its key set;                   *)
(*   - a text (str) is a sequence of atoms, "" is << >>, and               *)
(*     concatenation is \o;                                                *)
(*   - a float of the confidence arithmetic is the integer ten times it;   *)
(*   - None is the record NoneValue.                                       *)
(* Variables whose names start with g_ are ghosts: they record what an     *)
(* operation was given and what it did, and no operation reads them.       *)
(***************************************************************************)
EXTENDS Integers, Sequences, FiniteSets, TLC

(***************************************************************************)
(* Bounds of the model.                                                    *)
(***************************************************************************)
\* register_agent calls in one behaviour of the registry specification
MaxRegister == 3
\* register_agent calls in one behaviour of the coordination specification
MaxSetup == 3
\* get_agent calls in one behaviour
MaxLookup == 2

(***************************************************************************)
(* Input universes.                                                        *)
(***************************************************************************)
AgentIds == {"a1", "a2", "a3"}

Tags == {"career", "finance", "health"}

\* BaseAgent.__init__: self.confidence_threshold = 0.7
DefaultThreshold == 7

\* A worker: a BaseAgent subclass instance.  reply is the text its
\* process_input returns when it does not raise.
Worker(agent_id, expertise_domains, reply) ==
  [agent_id |-> agent_id, expertise_domains |-> expertise_domains,
   confidence_threshold |-> DefaultThreshold, reply |-> reply]

\* The workers a caller may register: one per id, and a second worker
\* with the id a1 that declares another domain and replies "".
WorkerObjects ==
  {Worker("a1", {"career"}, <<"advice">>),
   Worker("a1", {"finance"}, << >>),
   Worker("a2", {"finance"}, <<"salary: 5">>),
   Worker("a3", {"finance", "health"}, <<"advice">>)}

NoneValue == [none |-> TRUE]

(***************************************************************************)
(* State.                                                                  *)
(***************************************************************************)
VARIABLES
  agents,                \* self.agents: agent_id -> worker
  domain_expertise_map,  \* self.domain_expertise_map: tag -> set of ids
  g_register,            \* ghost: the last register_agent call
  g_lookup,              \* ghost: the last get_agent call and what it gave
  n_register,            \* number of register_agent calls so far
  n_lookup,              \* number of get_agent calls so far
  interaction_patterns,  \* self.interaction_patterns
  orchestration_rules,   \* self.orchestration_rules
  g_config_file,         \* ghost: config/orchestration_rules.json at startup
  context_history,       \* self.context_history
  decision_history,      \* self.decision_history
  pc,                    \* per coordinate_response call: where it stands
  frames,                \* per call: its arguments and local variables
  result,                \* per call: the dict it returned
  g_calls,               \* ghost, per call: the process_input calls it made
  caller_context,        \* per call: the caller's dict object, as it is now
  holistic,              \* per generate_holistic_recommendations call: its
                         \* position, arguments, locals and returned dict
  g_probe                \* ghost: the last direct call of a helper method,
                         \* with its arguments and what it returned

registryVars ==
  <<agents, domain_expertise_map, g_register, g_lookup, n_register, n_lookup>>

historyVars == <<context_history, decision_history>>

cycleVars == <<pc, frames, result, g_calls>>

\* everything that belongs to the calls in flight
callVars == <<cycleVars, caller_context, holistic>>

\* what __init__ sets and no method writes afterwards
constructedVars == <<interaction_patterns, orchestration_rules, g_config_file>>

\* what no operation of the orchestrator writes
fixedVars == <<constructedVars, g_probe>>

vars == <<registryVars, fixedVars, historyVars, callVars>>

EmptyDict == [k \in {} |-> NoneValue]

\* dict.get(key) with the default None
DictGet(d, k) == IF k \in DOMAIN d THEN d[k] ELSE NoneValue

\* d[k] = v
DictSet(d, k, v) == [x \in DOMAIN d \cup {k} |-> IF x = k THEN v ELSE d[x]]

(***************************************************************************)
(* Registry: register_agent, _update_expertise_map, get_agent.             *)
(***************************************************************************)
\* _update_expertise_map: for each declared domain, create the entry if it
\* is missing and add the agent's id to it.
UpdateExpertiseMap(m, agent) ==
  [t \in DOMAIN m \cup agent.expertise_domains |->
     IF t \in agent.expertise_domains
       THEN (IF t \in DOMAIN m THEN m[t] ELSE {}) \cup {agent.agent_id}
       ELSE m[t]]

\* A registry that keeps the newest worker only.
RegisterAgentsReplacingAll(a, agent) == [k \in {agent.agent_id} |-> agent]

\* register_agent: self.agents[agent.agent_id] = agent (an assignment: an
\* existing entry is replaced), then _update_expertise_map(agent).
RegisterAgents(a, agent) == DictSet(a, agent.agent_id, agent)

\* A get_agent that indexes, self.agents[agent_id]: KeyError for a missing id.
GetAgentIndexing(a, agent_id) ==
  IF agent_id \in DOMAIN a
    THEN [value |-> a[agent_id], raised |-> "none"]
    ELSE [value |-> NoneValue, raised |-> "KeyError"]

\* get_agent: return self.agents.get(agent_id); nothing is raised
GetAgent(a, agent_id) == [value |-> DictGet(a, agent_id), raised |-> "none"]

NoRegister ==
  [called |-> FALSE, duplicate |-> FALSE, raised |-> "none",
   agents_before |-> EmptyDict, map_before |-> EmptyDict]

NoLookup ==
  [called |-> FALSE, agent_id |-> "none", registered |-> FALSE,
   value |-> NoneValue, raised |-> "none", agents_at |-> EmptyDict]

\* What the constructor finds at config/orchestration_rules.json: no file,
\* a file that json.load rejects, or a file that holds a JSON object.
ConfigFiles == {"missing", "malformed", "rules"}

\* An attribute that was never assigned: reading it raises AttributeError.
Unset == [unset |-> TRUE]

\* The object that json.load returns for the file that holds rules.
ParsedRules == [routing |-> "default"]

\* _load_orchestration_config: the assignment is inside
\* "if config_path.exists()", the fallback {} inside "except Exception".
LoadOrchestrationConfig(file) ==
  CASE file = "missing" -> Unset
    [] file = "malformed" -> EmptyDict
    [] file = "rules" -> ParsedRules

RegistryInit ==
  /\ agents = EmptyDict
  /\ domain_expertise_map = EmptyDict
  /\ g_register = NoRegister
  /\ g_lookup = NoLookup
  /\ n_register = 0
  /\ n_lookup = 0

register_agent(agent, limit) ==
  /\ n_register < limit
  /\ n_register' = n_register + 1
  /\ agents' = RegisterAgents(agents, agent)
  /\ domain_expertise_map' = UpdateExpertiseMap(domain_expertise_map, agent)

get_agent(agent_id) ==
  /\ n_lookup < MaxLookup
  /\ n_lookup' = n_lookup + 1
  /\ g_lookup' =
       [called |-> TRUE,
        agent_id |-> agent_id,
        registered |-> agent_id \in DOMAIN agents,
        value |-> GetAgent(agents, agent_id).value,
        raised |-> GetAgent(agents, agent_id).raised,
        agents_at |-> agents]
  /\ UNCHANGED <<agents, domain_expertise_map, g_register, n_register>>

\* A caller registers a worker; the ghost keeps the registry as it was.
RegisterStep ==
  \E agent \in WorkerObjects :
    /\ register_agent(agent, MaxRegister)
    /\ g_register' =
         [called |-> TRUE,
          duplicate |-> agent.agent_id \in DOMAIN agents,
          raised |-> "none",
          agents_before |-> agents,
          map_before |-> domain_expertise_map]
    /\ UNCHANGED <<g_lookup, n_lookup>>
    /\ UNCHANGED <<fixedVars, historyVars, callVars>>

LookupStep ==
  \E agent_id \in AgentIds :
    /\ get_agent(agent_id)
    /\ UNCHANGED <<fixedVars, historyVars, callVars>>

RegistryNext == RegisterStep \/ LookupStep

(***************************************************************************)
(* Texts, caller contexts and the inputs of a coordination cycle.          *)
(***************************************************************************)
\* coordinate_response calls in one behaviour
MaxCycles == 2

Cycles == 1 .. MaxCycles

EmptyText == << >>

\* process_input of a worker, when it returns: the empty string, a plain
\* sentence, or a sentence with a colon and a digit in it (WorkerObjects).
ProcessInput(agent, user_input, context) == agent.reply

Queries == {<<"hello">>}

\* The context argument: {} and two one-key dicts.
CallerContexts == {EmptyDict, [industry |-> "finance"], [topic |-> "salary"]}

\* Words of one atom, as str.split() counts them; "essay" stands for a
\* plain paragraph of 51 words.
AtomWords(atom) ==
  CASE atom = "salary: 5" -> 2
    [] atom = "Additional insight:" -> 2
    [] atom = "essay" -> 51
    [] OTHER -> 1

\* Atoms that contain one of ":", "-", the bullet.
StructureAtoms == {"salary: 5", "Additional insight:", "plan:"}

\* Atoms that contain a digit.
DigitAtoms == {"salary: 5", "42"}

RECURSIVE WordCount(_)
WordCount(text) ==
  IF text = << >> THEN 0 ELSE AtomWords(Head(text)) + WordCount(Tail(text))

Atoms(text) == {text[i] : i \in 1 .. Len(text)}

\* A score without the test for the empty response.
CalculateConfidenceUnguarded(response) ==
  LET confidence == 5 + (IF WordCount(response) > 50 THEN 1 ELSE 0)
                      + (IF Atoms(response) \cap StructureAtoms # {} THEN 2 ELSE 0)
                      + (IF Atoms(response) \cap DigitAtoms # {} THEN 2 ELSE 0)
  IN IF confidence < 10 THEN confidence ELSE 10

\* BaseAgent._calculate_confidence, in tenths.
CalculateConfidence(response) ==
  IF response = EmptyText THEN 0
  ELSE LET word_count == WordCount(response)
           has_structure == Atoms(response) \cap StructureAtoms # {}
           has_metrics == Atoms(response) \cap DigitAtoms # {}
           confidence == 5 + (IF word_count > 50 THEN 1 ELSE 0)
                           + (IF has_structure THEN 2 ELSE 0)
                           + (IF has_metrics THEN 2 ELSE 0)
       IN IF confidence < 10 THEN confidence ELSE 10

\* The pairs <<keyword, s>> with keyword a substring of s.lower(), for the
\* keywords of _context_matches_domain and the strings s of this model.
Occurs ==
  {<<"career", "career">>, <<"health", "health">>,
   <<"salary", "salary">>, <<"salary", "salary: 5">>}

\* _context_matches_domain: domain_keywords
DomainKeywords ==
  [career |-> {"job", "career", "skills", "professional"},
   finance |-> {"money", "salary", "compensation", "financial"},
   health |-> {"health", "wellness", "stress", "balance"}]

\* The strings that str(d) shows for a dict d of strings: keys and values.
DictStrings(d) == DOMAIN d \cup {d[k] : k \in DOMAIN d}

\* str() of a context argument: None prints as "None".
ContextStrings(c) == IF c = NoneValue THEN {"None"} ELSE DictStrings(c)

(***************************************************************************)
(* History records and context enhancement.                                *)
(*                                                                         *)
(* A decision point is the dict of _create_decision_point; has_outcome     *)
(* says whether _record_decision_outcome has added its keys, and g_cycle   *)
(* (a ghost) names the call that created it.  Timestamps are left out.     *)
(* An enhanced context keeps the caller's keys under caller, and of each   *)
(* digest what the dispatcher reads: whether it is the empty dict and the  *)
(* strings that str() of it shows.  Workers have empty knowledge bases and *)
(* learning histories (nothing in the orchestrator writes them), so the    *)
(* cross-domain digest shows its keys, the registered domain names, only.  *)
(***************************************************************************)
\* _create_decision_point: the record that is appended
CreateDecisionPoint(cycle, user_input, primary_agent_id, context) ==
  [g_cycle |-> cycle,
   user_input |-> user_input,
   primary_agent |-> primary_agent_id,
   initial_context |-> context,
   has_outcome |-> FALSE,
   response |-> EmptyText,
   success_metrics |-> EmptyDict]

\* _calculate_success_metrics, in tenths
CalculateSuccessMetrics(response) ==
  [confidence |-> IF response # EmptyText THEN 8 ELSE 0,
   relevance |-> 7,
   actionability |-> 6]

\* _record_decision_outcome: decision_point.update({...})
RecordDecisionOutcome(decision_point, response) ==
  [decision_point EXCEPT
     !.has_outcome = TRUE,
     !.response = response,
     !.success_metrics = CalculateSuccessMetrics(response)]

\* An outcome that goes to the newest decision point of the history.
AttachOutcomeToNewest(dh, decision_index, response) ==
  [dh EXCEPT ![Len(dh)] = RecordDecisionOutcome(@, response)]

\* _record_decision_outcome(decision_point, response) in coordinate_response:
\* decision_point is the dict that the call's own _create_decision_point
\* returned, which sits in decision_history where it was appended.
AttachOutcome(dh, decision_index, response) ==
  [dh EXCEPT ![decision_index] = RecordDecisionOutcome(@, response)]

\* A metric lookup whose default is the full score.
MetricGetDefaultFull(metrics, key) ==
  IF key \in DOMAIN metrics THEN metrics[key] ELSE 10

\* metrics.get(key, 0)
MetricGet(metrics, key) == IF key \in DOMAIN metrics THEN metrics[key] ELSE 0

\* _was_successful_interaction
WasSuccessfulInteraction(decision) ==
  LET metrics == decision.success_metrics
  IN IF MetricGet(metrics, "confidence") < 7 THEN FALSE
     ELSE IF MetricGet(metrics, "relevance") < 6 THEN FALSE
     ELSE IF MetricGet(metrics, "actionability") < 5 THEN FALSE
     ELSE TRUE

\* _analyze_success_patterns: one pattern per decision point of the history
\* that _was_successful_interaction accepts, here by its position.
AnalyzeSuccessPatterns(dh) ==
  {k \in 1 .. Len(dh) : WasSuccessfulInteraction(dh[k])}

\* _extract_topics: the industry of the context (the contexts of this model
\* have no career_goals)
ExtractTopics(enhanced) ==
  IF "industry" \in DOMAIN enhanced.caller
    THEN {enhanced.caller["industry"]} ELSE {}

\* _generate_context_key
GenerateContextKey(enhanced) ==
  IF "industry" \in DOMAIN enhanced.caller
    THEN <<"industry:", enhanced.caller["industry"]>> ELSE << >>

\* The strings str(enhanced) shows, fixed key names apart.
EnhancedStrings(enhanced) ==
  DictStrings(enhanced.caller)
    \cup enhanced.global_patterns.strings
    \cup enhanced.cross_domain_insights

\* _update_context_history: the record that is appended
ContextRecord(enhanced, response) ==
  [context |-> enhanced, response |-> response,
   topics |-> ExtractTopics(enhanced)]

\* A history that keeps the newest record first.
UpdateContextHistoryNewestFirst(ch, enhanced, response) ==
  <<ContextRecord(enhanced, response)>> \o ch

\* _update_context_history: self.context_history.append(context_record)
UpdateContextHistory(ch, enhanced, response) ==
  Append(ch, ContextRecord(enhanced, response))

\* _analyze_global_patterns: {} on an empty context history; otherwise the
\* topics (_identify_common_topics), the initial contexts of the successful
\* decisions (_identify_successful_patterns, _analyze_success_patterns), and
\* per context key the first context seen and every response
\* (_identify_common_contexts; its [:5] cuts nothing here, the contexts of
\* this model having at most three keys).
AnalyzeGlobalPatterns(ch, dh) ==
  IF ch = << >> THEN [empty |-> TRUE, strings |-> {}]
  ELSE
    LET FirstSeen(i) ==
          \A j \in 1 .. (i - 1) :
            GenerateContextKey(ch[j].context) # GenerateContextKey(ch[i].context)
    IN [empty |-> FALSE,
        strings |->
          UNION {ch[i].topics \cup Atoms(ch[i].response) : i \in 1 .. Len(ch)}
          \cup UNION {EnhancedStrings(ch[i].context) :
                        i \in {k \in 1 .. Len(ch) : FirstSeen(k)}}
          \cup UNION {ContextStrings(dh[i].initial_context) :
                        i \in AnalyzeSuccessPatterns(dh)}]

\* _generate_cross_domain_insights: one entry per key of the expertise map
GenerateCrossDomainInsights(m) == DOMAIN m

\* A temporal digest computed without the test for an empty history.
AnalyzeTemporalContextUnguarded(ch) ==
  [empty |-> FALSE, recent_interactions |-> Len(ch)]

\* _analyze_temporal_context: {} on an empty context history; every
\* recorded interaction counts as recent
AnalyzeTemporalContext(ch) ==
  IF ch = << >> THEN [empty |-> TRUE, recent_interactions |-> 0]
  ELSE [empty |-> FALSE, recent_interactions |-> Len(ch)]

\* _enhance_global_context: context.copy() if context else {}, plus digests
EnhanceGlobalContext(context, ch, dh, m) ==
  [caller |-> IF context = NoneValue THEN EmptyDict ELSE context,
   global_patterns |-> AnalyzeGlobalPatterns(ch, dh),
   cross_domain_insights |-> GenerateCrossDomainInsights(m),
   temporal_context |-> AnalyzeTemporalContext(ch)]

\* An enhancement that writes the digests into the dict it was given:
\* enhanced = context if context else {}.
ContextAfterEnhanceInPlace(context, ch, dh, m) ==
  IF context = NoneValue \/ DOMAIN context = {} THEN context
  ELSE [k \in DOMAIN context
               \cup {"global_patterns", "cross_domain_insights", "temporal_context"} |->
          CASE k = "global_patterns" -> AnalyzeGlobalPatterns(ch, dh)
            [] k = "cross_domain_insights" -> GenerateCrossDomainInsights(m)
            [] k = "temporal_context" -> AnalyzeTemporalContext(ch)
            [] OTHER -> context[k]]

\* _enhance_global_context, what it leaves in the dict object it was given:
\* enhanced is context.copy(), another object, and the three digests are
\* assigned to keys of the copy.
ContextAfterEnhance(context, ch, dh, m) == context

(***************************************************************************)
(* Dispatch: which agents are consulted.                                   *)
(***************************************************************************)
\* A keyword test that reads the caller's keys and values only.
ContextMatchesDomainCallerOnly(enhanced, domain) ==
  IF domain \notin DOMAIN DomainKeywords THEN FALSE
  ELSE \E keyword \in DomainKeywords[domain], str \in DictStrings(enhanced.caller) :
         <<keyword, str>> \in Occurs

\* _context_matches_domain: a keyword of the domain occurs in
\* str(context).lower()
ContextMatchesDomain(enhanced, domain) ==
  IF domain \notin DOMAIN DomainKeywords THEN FALSE
  ELSE \E keyword \in DomainKeywords[domain], str \in EnhancedStrings(enhanced) :
         <<keyword, str>> \in Occurs

\* A dispatcher that reads no explicit field, only the keyword table.
IdentifyRelevantDomainsKeywordsOnly(enhanced, m) ==
  {domain \in DOMAIN m : ContextMatchesDomain(enhanced, domain)}

\* _identify_relevant_domains
IdentifyRelevantDomains(enhanced, m) ==
  (IF "industry" \in DOMAIN enhanced.caller
     THEN {enhanced.caller["industry"]} ELSE {})
  \cup {domain \in DOMAIN m : ContextMatchesDomain(enhanced, domain)}

\* Stored patterns, as the items of self.interaction_patterns that
\* _identify_pattern_based_relevance reads: the keys context and
\* successful_agents.  The id a9 is the id of no worker.
PartialPattern ==
  [context |-> [industry |-> "retail", topic |-> "returns"],
   successful_agents |-> {"a2", "a9"}]

ExactPattern ==
  [context |-> [industry |-> "retail", topic |-> "hours"],
   successful_agents |-> {"a3"}]

DisjointPattern ==
  [context |-> [mood |-> "low"], successful_agents |-> {"a2"}]

\* The lists that interaction_patterns is given to start from.
StoredPatternLists == {<<PartialPattern>>, <<DisjointPattern, ExactPattern>>}

\* The contexts of the calls made on an orchestrator with stored patterns.
StoredCallerContexts ==
  {[industry |-> "retail", topic |-> "hours"], [topic |-> "hours"]}

\* _context_matches_pattern: any() over the keys the two contexts share
ContextMatchesPattern(enhanced, pattern) ==
  \E key \in DOMAIN pattern.context \cap DOMAIN enhanced.caller :
    enhanced.caller[key] = pattern.context[key]

\* _identify_pattern_based_relevance
IdentifyPatternBasedRelevance(enhanced, patterns) ==
  UNION {patterns[i].successful_agents :
           i \in {k \in 1 .. Len(patterns) :
                    ContextMatchesPattern(enhanced, patterns[k])}}

\* _identify_relevant_agents
IdentifyRelevantAgents(enhanced, m, patterns) ==
  UNION {m[domain] : domain \in IdentifyRelevantDomains(enhanced, m) \cap DOMAIN m}
  \cup IdentifyPatternBasedRelevance(enhanced, patterns)

(***************************************************************************)
(* Aggregation: _integrate_responses.  The related responses are kept as   *)
(* the sequence of the dict's items, in insertion order.                   *)
(***************************************************************************)
\* A sort that puts an item before the items of its own confidence.
InsertBeforeEqualConfidence(sorted, item) ==
  LET k == Cardinality({i \in 1 .. Len(sorted) :
                          sorted[i].confidence > item.confidence})
  IN SubSeq(sorted, 1, k) \o <<item>> \o SubSeq(sorted, k + 1, Len(sorted))

\* sorted(..., key=confidence, reverse=True): stable, so an item goes after
\* the items already placed whose confidence is at least its own
InsertByConfidence(sorted, item) ==
  LET k == Cardinality({i \in 1 .. Len(sorted) :
                          sorted[i].confidence >= item.confidence})
  IN SubSeq(sorted, 1, k) \o <<item>> \o SubSeq(sorted, k + 1, Len(sorted))

RECURSIVE SortByConfidence(_)
SortByConfidence(items) ==
  IF items = << >> THEN << >>
  ELSE InsertByConfidence(SortByConfidence(SubSeq(items, 1, Len(items) - 1)),
                          items[Len(items)])

\* _extract_key_insight
ExtractKeyInsight(response) == response

\* _merge_insight
MergeInsight(base_response, insight) ==
  IF insight # EmptyText
    THEN base_response \o <<"Additional insight:">> \o insight
    ELSE base_response

RECURSIVE MergeAll(_, _, _)
MergeAll(integrated, sorted_responses, a) ==
  IF sorted_responses = << >> THEN integrated
  ELSE LET item == Head(sorted_responses)
       IN MergeAll(
            IF item.confidence >= a[item.agent_id].confidence_threshold
              THEN MergeInsight(integrated, ExtractKeyInsight(item.response))
              ELSE integrated,
            Tail(sorted_responses), a)

\* _integrate_responses; self.agents[agent_id] raises KeyError for an id
\* that is not registered
IntegrateRaises(related_responses, a) ==
  \E i \in 1 .. Len(related_responses) :
    related_responses[i].agent_id \notin DOMAIN a

IntegrateResponses(primary_response, related_responses, a) ==
  MergeAll(primary_response, SortByConfidence(related_responses), a)

\* The dict related_responses: agent_id -> {response, confidence}
RelatedDict(related_responses) ==
  [id \in {related_responses[i].agent_id : i \in 1 .. Len(related_responses)} |->
     LET i == CHOOSE k \in 1 .. Len(related_responses) :
                related_responses[k].agent_id = id
     IN [response |-> related_responses[i].response,
         confidence |-> related_responses[i].confidence]]

(***************************************************************************)
(* Recommendations.  A recommendation is a dict; a value that may or may   *)
(* not be a number (priority) is PyInt(n) for the int n, or NoneValue.     *)
(* A list of skills is kept as the set of its members.  The dict           *)
(* recommendations: agent_id -> list is kept as the sequence of its items, *)
(* in insertion order.                                                     *)
(***************************************************************************)
\* generate_holistic_recommendations calls in one behaviour
MaxRecommend == 1

RecCalls == 1 .. MaxRecommend

PyInt(n) == [int |-> n]

IsNumber(v) == "int" \in DOMAIN v

\* MockAgent.generate_recommendations: one item, no type, no agent_id
TestRecommendation ==
  [recommendation |-> "Test recommendation", priority |-> PyInt(1)]

\* generate_recommendations of a worker, when it returns: the mock's list;
\* an item whose priority is None; one item of the type invest; an item of
\* the same type with a lower priority and an item of another type.
GenerateRecommendations(agent, user_data) ==
  CASE agent = Worker("a1", {"career"}, <<"advice">>) ->
         <<TestRecommendation>>
    [] agent = Worker("a1", {"finance"}, << >>) ->
         <<[type |-> "invest", priority |-> NoneValue]>>
    [] agent = Worker("a2", {"finance"}, <<"salary: 5">>) ->
         <<[type |-> "invest", priority |-> PyInt(5),
            skills |-> {"planning"}, provided_skills |-> {"budgeting"}]>>
    [] agent = Worker("a3", {"finance", "health"}, <<"advice">>) ->
         <<[type |-> "invest", priority |-> PyInt(3),
            required_skills |-> {"budgeting"}],
           [type |-> "exercise", priority |-> PyInt(2),
            skills |-> {"planning"}]>>
    [] OTHER -> << >>

\* rec.get("type"): None, written "None", for a dict without the key
RecType(rec) == IF "type" \in DOMAIN rec THEN rec.type ELSE "None"

\* rec.get("priority", 0)
RecPriority(rec) == IF "priority" \in DOMAIN rec THEN rec.priority ELSE PyInt(0)

\* rec.get(key, []) for the keys that hold lists of skills
RecSkills(rec, key) == IF key \in DOMAIN rec THEN rec[key] ELSE {}

\* _recommendations_conflict: equal types and both priorities > 0.  The
\* comparison with 0 raises TypeError for a priority that is no number;
\* "and" does not evaluate its second operand when the first is false.
RecommendationsConflict(rec1, rec2) ==
  LET p1 == RecPriority(rec1)
      p2 == RecPriority(rec2)
  IN IF RecType(rec1) # RecType(rec2) THEN [value |-> FALSE, raised |-> "none"]
     ELSE IF ~IsNumber(p1) THEN [value |-> FALSE, raised |-> "TypeError"]
     ELSE IF ~(p1.int > 0) THEN [value |-> FALSE, raised |-> "none"]
     ELSE IF ~IsNumber(p2) THEN [value |-> FALSE, raised |-> "TypeError"]
     ELSE [value |-> p2.int > 0, raised |-> "none"]

\* _recommendations_synergize
RecommendationsSynergize(rec1, rec2) ==
  /\ RecType(rec1) # RecType(rec2)
  /\ RecSkills(rec1, "skills") \cap RecSkills(rec2, "skills") # {}

\* _recommendations_depend: rec1 requires a skill that rec2 provides
RecommendationsDepend(rec1, rec2) ==
  /\ RecSkills(rec1, "required_skills") # {}
  /\ RecSkills(rec1, "required_skills") \cap RecSkills(rec2, "provided_skills") # {}

\* for agent_recs in recommendations.values(): all_recs.extend(agent_recs)
RECURSIVE FlattenRecommendations(_)
FlattenRecommendations(recommendations) ==
  IF recommendations = << >> THEN << >>
  ELSE Head(recommendations).recs \o FlattenRecommendations(Tail(recommendations))

\* for i, rec1 in enumerate(all_recs): for rec2 in all_recs[i+1:]
RECURSIVE PairSeq(_, _, _)
PairSeq(i, j, n) ==
  IF i >= n THEN << >>
  ELSE IF j > n THEN PairSeq(i + 1, i + 2, n)
  ELSE <<(<<i, j>>)>> \o PairSeq(i, j + 1, n)

Pairs(all_recs) == PairSeq(1, 2, Len(all_recs))

\* _identify_conflicts: raises what _recommendations_conflict raises
IdentifyConflictsRaises(all_recs) ==
  \E k \in 1 .. Len(Pairs(all_recs)) :
    LET p == Pairs(all_recs)[k]
    IN RecommendationsConflict(all_recs[p[1]], all_recs[p[2]]).raised # "none"

ConflictRecord(rec1, rec2) ==
  [rec1 |-> rec1, rec2 |-> rec2, type |-> "mutually_exclusive"]

IdentifyConflicts(all_recs) ==
  LET Found(p) == RecommendationsConflict(all_recs[p[1]], all_recs[p[2]]).value
      found == SelectSeq(Pairs(all_recs), Found)
  IN [k \in 1 .. Len(found) |->
        ConflictRecord(all_recs[found[k][1]], all_recs[found[k][2]])]

\* _identify_synergies
IdentifySynergies(all_recs) ==
  LET Found(p) == RecommendationsSynergize(all_recs[p[1]], all_recs[p[2]])
      found == SelectSeq(Pairs(all_recs), Found)
  IN [k \in 1 .. Len(found) |->
        [rec1 |-> all_recs[found[k][1]], rec2 |-> all_recs[found[k][2]],
         type |-> "complementary"]]

\* _identify_dependencies
IdentifyDependencies(all_recs) ==
  LET Found(p) == RecommendationsDepend(all_recs[p[1]], all_recs[p[2]])
      found == SelectSeq(Pairs(all_recs), Found)
  IN [k \in 1 .. Len(found) |->
        [dependent |-> all_recs[found[k][1]],
         prerequisite |-> all_recs[found[k][2]],
         type |-> "prerequisite"]]

\* _analyze_recommendation_relationships: the dict of the three lists
AnalyzeRecommendationRelationships(recommendations) ==
  LET all_recs == FlattenRecommendations(recommendations)
  IN [conflicts |-> IdentifyConflicts(all_recs),
      synergies |-> IdentifySynergies(all_recs),
      dependencies |-> IdentifyDependencies(all_recs)]

\* The key of _sort_recommendations: x.get("priority", 0),
\* len(x.get("synergies", [])), -len(x.get("conflicts", []))
SortKey(x) ==
  <<IF "priority" \in DOMAIN x /\ IsNumber(x.priority) THEN x.priority.int ELSE 0,
    IF "synergies" \in DOMAIN x THEN Len(x.synergies) ELSE 0,
    IF "conflicts" \in DOMAIN x THEN 0 - Len(x.conflicts) ELSE 0>>

\* tuple comparison k1 >= k2
KeyAtLeast(k1, k2) ==
  \/ k1[1] > k2[1]
  \/ k1[1] = k2[1] /\ k1[2] > k2[2]
  \/ k1[1] = k2[1] /\ k1[2] = k2[2] /\ k1[3] >= k2[3]

\* sorted(all_recs, key=..., reverse=True): stable, so an item goes after
\* the items already placed whose key is at least its own
InsertByKey(sorted, item) ==
  LET k == Cardinality({i \in 1 .. Len(sorted) :
                          KeyAtLeast(SortKey(sorted[i]), SortKey(item))})
  IN SubSeq(sorted, 1, k) \o <<item>> \o SubSeq(sorted, k + 1, Len(sorted))

RECURSIVE SortByKey(_)
SortByKey(items) ==
  IF items = << >> THEN << >>
  ELSE InsertByKey(SortByKey(SubSeq(items, 1, Len(items) - 1)), items[Len(items)])

\* _sort_recommendations: the values of the dict it is given that are
\* lists, concatenated, and sorted.  It is given the analysis, whose values
\* are the lists of conflicts, of synergies and of dependencies.
SortRecommendations(analyzed_recommendations) ==
  SortByKey(analyzed_recommendations.conflicts
              \o analyzed_recommendations.synergies
              \o analyzed_recommendations.dependencies)

\* _has_direct_conflict
HasDirectConflict(rec1, rec2) == FALSE

\* _has_indirect_conflict
HasIndirectConflict(rec, existing) == FALSE

\* _conflicts_with_existing
ConflictsWithExisting(new_rec, existing_recs) ==
  IF existing_recs = << >> THEN FALSE
  ELSE \/ \E i \in 1 .. Len(existing_recs) :
            HasDirectConflict(new_rec, existing_recs[i])
       \/ HasIndirectConflict(new_rec, existing_recs)

RECURSIVE AdmitAll(_, _)
AdmitAll(integrated, sorted_recs) ==
  IF sorted_recs = << >> THEN integrated
  ELSE AdmitAll(IF ~ConflictsWithExisting(Head(sorted_recs), integrated)
                  THEN Append(integrated, Head(sorted_recs))
                  ELSE integrated,
                Tail(sorted_recs))

\* _integrate_recommendations
IntegrateRecommendations(analyzed_recommendations) ==
  AdmitAll(<< >>, SortRecommendations(analyzed_recommendations))

(***************************************************************************)
(* coordinate_response.  A call suspends only where it awaits a worker's   *)
(* process_input (_enhance_global_context awaits nothing), so one action   *)
(* runs the call from one such await to the next; other calls and          *)
(* register_agent may run in between.                                      *)
(***************************************************************************)
IdleFrame ==
  [user_input |-> EmptyText, primary_agent_id |-> "none",
   context |-> NoneValue, decision_index |-> 0,
   primary_agent |-> NoneValue, enhanced |-> NoneValue,
   primary_response |-> EmptyText, relevant_agents |-> {},
   todo |-> {}, responses |-> << >>, agent |-> NoneValue]

NoResult == [status |-> "none"]

IdleHolistic ==
  [pc |-> "idle", user_data |-> NoneValue, caller_data |-> NoneValue,
   enhanced |-> NoneValue, relevant_agents |-> {}, todo |-> {},
   agent |-> NoneValue, recommendations |-> << >>,
   g_analysis |-> NoneValue, result |-> NoResult, g_calls |-> << >>]

\* coordinate_response and generate_holistic_recommendations calls made
CallsStarted ==
  Cardinality({q \in Cycles : pc[q] # "idle"})
    + Cardinality({q \in RecCalls : holistic[q].pc # "idle"})

\* An except branch that reports success.
ErrorResultAsSuccess(message) == [status |-> "success", error |-> message]

\* the dict of the except branch
ErrorResult(message) == [status |-> "error", error |-> message]

\* A try branch that returns the integrated text as the primary response.
SuccessResultIntegratedAsPrimary(primary_response, related_responses, final_response, enhanced) ==
  [status |-> "success",
   primary_response |-> final_response,
   related_responses |-> RelatedDict(related_responses),
   integrated_response |-> final_response,
   context |-> enhanced]

\* the dict of the try branch
SuccessResult(primary_response, related_responses, final_response, enhanced) ==
  [status |-> "success",
   primary_response |-> primary_response,
   related_responses |-> RelatedDict(related_responses),
   integrated_response |-> final_response,
   context |-> enhanced]

PendingCall(agent_id, role) ==
  [agent_id |-> agent_id, role |-> role, outcome |-> "pending",
   output |-> EmptyText]

\* The last call of the log has returned output / has raised.
Returned(log, output) ==
  [log EXCEPT ![Len(log)] = [@ EXCEPT !.outcome = "returned", !.output = output]]

Raised(log) == [log EXCEPT ![Len(log)] = [@ EXCEPT !.outcome = "raised"]]

\* The last call of the log was cancelled while it was awaited.
Cancelled(log) == [log EXCEPT ![Len(log)] = [@ EXCEPT !.outcome = "cancelled"]]

\* direct calls of helper methods in one behaviour
MaxProbe == 1

NoProbe == [op |-> "none", n |-> 0]

\* AgentOrchestrator.__init__, with the stored patterns and the config file
\* it starts from.
Construct(patterns, file) ==
  /\ RegistryInit
  /\ interaction_patterns = patterns
  /\ g_config_file = file
  /\ orchestration_rules = LoadOrchestrationConfig(file)
  /\ g_probe = NoProbe
  /\ context_history = << >>
  /\ decision_history = << >>
  /\ pc = [r \in Cycles |-> "idle"]
  /\ frames = [r \in Cycles |-> IdleFrame]
  /\ result = [r \in Cycles |-> NoResult]
  /\ g_calls = [r \in Cycles |-> << >>]
  /\ caller_context = [r \in Cycles |-> NoneValue]
  /\ holistic = [r \in RecCalls |-> IdleHolistic]

\* The repository ships no config directory and __init__ sets
\* interaction_patterns to [].
Init == Construct(<< >>, "missing")

\* An orchestrator whose interaction_patterns holds stored patterns.
InitStored == \E patterns \in StoredPatternLists : Construct(patterns, "missing")

\* Construction with each kind of config file.
InitStartup == \E file \in ConfigFiles : Construct(<< >>, file)

\* The except branch: the call returns the error dict.
ReturnError(r, frame, log, message) ==
  /\ pc' = [pc EXCEPT ![r] = "done"]
  /\ frames' = [frames EXCEPT ![r] = frame]
  /\ result' = [result EXCEPT ![r] = ErrorResult(message)]
  /\ g_calls' = [g_calls EXCEPT ![r] = log]

\* _integrate_responses, _update_context_history, _record_decision_outcome
\* and the return of the success dict.
FinishCycle(r, frame, log) ==
  IF IntegrateRaises(frame.responses, agents)
    THEN /\ ReturnError(r, frame, log, <<"KeyError">>)
         /\ UNCHANGED historyVars
    ELSE LET final_response ==
               IntegrateResponses(frame.primary_response, frame.responses, agents)
         IN /\ context_history' =
                 UpdateContextHistory(context_history, frame.enhanced,
                                      final_response)
            /\ decision_history' =
                 AttachOutcome(decision_history, frame.decision_index,
                               final_response)
            /\ pc' = [pc EXCEPT ![r] = "done"]
            /\ frames' = [frames EXCEPT ![r] = frame]
            /\ result' = [result EXCEPT ![r] =
                 SuccessResult(frame.primary_response, frame.responses,
                               final_response, frame.enhanced)]
            /\ g_calls' = [g_calls EXCEPT ![r] = log]

\* A loop without the test agent_id != primary_agent_id.
GatherStepsNoPrimaryCheck(todo, primary_agent_id, a) ==
  LET unregistered == {id \in todo : id \notin DOMAIN a}
      callable == {id \in todo : id \in DOMAIN a}
  IN {[kind |-> "call", agent_id |-> id,
       todo |-> todo \ (skipped \cup {id})] :
        id \in callable, skipped \in SUBSET unregistered}
     \cup (IF callable = {}
             THEN {[kind |-> "finish", agent_id |-> "none", todo |-> {}]}
             ELSE {})

\* The loop of _gather_agent_responses from its present position to its
\* next await.  The set relevant_agents is iterated in an order the
\* program does not fix: the ids passed over before the next call is made
\* are any of those that are the primary's or are not registered now.
\* (The primary's id is dropped at once: it is passed over whenever it is
\* reached, so when it is reached makes no difference.)
GatherSteps(todo, primary_agent_id, a) ==
  LET unregistered == {id \in todo : id \notin DOMAIN a}
      callable == {id \in todo : id # primary_agent_id /\ id \in DOMAIN a}
  IN {[kind |-> "call", agent_id |-> id,
       todo |-> todo \ (skipped \cup {id, primary_agent_id})] :
        id \in callable, skipped \in SUBSET unregistered}
     \cup (IF callable = {}
             THEN {[kind |-> "finish", agent_id |-> "none", todo |-> {}]}
             ELSE {})

ResumeGather(r, frame, log) ==
  \E step \in GatherSteps(frame.todo, frame.primary_agent_id, agents) :
    IF step.kind = "call"
      THEN /\ pc' = [pc EXCEPT ![r] = "await_secondary"]
           /\ frames' = [frames EXCEPT ![r] =
                [frame EXCEPT !.todo = step.todo,
                              !.agent = agents[step.agent_id]]]
           /\ g_calls' = [g_calls EXCEPT ![r] =
                Append(log, PendingCall(step.agent_id, "secondary"))]
           /\ UNCHANGED <<result, historyVars>>
      ELSE FinishCycle(r, [frame EXCEPT !.todo = {}, !.agent = NoneValue], log)

\* coordinate_response from its entry to the await of the primary agent:
\* _create_decision_point, the lookup of the primary agent,
\* _enhance_global_context, and the call of process_input.
coordinate_response(r, user_input, primary_agent_id, context) ==
  /\ pc[r] = "idle"
  /\ \A q \in Cycles : q < r => pc[q] # "idle"
  /\ CallsStarted < MaxCycles
  /\ decision_history' =
       Append(decision_history,
              CreateDecisionPoint(r, user_input, primary_agent_id, context))
  /\ LET frame ==
           [IdleFrame EXCEPT
              !.user_input = user_input,
              !.primary_agent_id = primary_agent_id,
              !.context = context,
              !.decision_index = Len(decision_history) + 1]
     IN IF primary_agent_id \notin DOMAIN agents
          THEN /\ ReturnError(r, frame, << >>,
                              <<"Primary agent", primary_agent_id, "not found">>)
               /\ caller_context' = [caller_context EXCEPT ![r] = context]
          ELSE /\ pc' = [pc EXCEPT ![r] = "await_primary"]
               /\ caller_context' = [caller_context EXCEPT ![r] =
                    ContextAfterEnhance(context, context_history,
                                        decision_history', domain_expertise_map)]
               /\ frames' = [frames EXCEPT ![r] =
                    [frame EXCEPT
                       !.primary_agent = agents[primary_agent_id],
                       !.enhanced =
                         EnhanceGlobalContext(context, context_history,
                                              decision_history',
                                              domain_expertise_map)]]
               /\ g_calls' = [g_calls EXCEPT ![r] =
                    <<PendingCall(primary_agent_id, "primary")>>]
               /\ UNCHANGED result
  /\ UNCHANGED <<registryVars, fixedVars, context_history, holistic>>

CoordinateStep ==
  \E r \in Cycles, user_input \in Queries, primary_agent_id \in AgentIds,
     context \in CallerContexts :
    coordinate_response(r, user_input, primary_agent_id, context)

\* coordinate_response called with the contexts that stored patterns share
\* keys with.
CoordinateStoredStep ==
  \E r \in Cycles, user_input \in Queries, primary_agent_id \in AgentIds,
     context \in StoredCallerContexts :
    coordinate_response(r, user_input, primary_agent_id, context)

\* The primary agent's process_input returns: _identify_relevant_agents,
\* then _gather_agent_responses up to its first await, or to the end.
PrimaryReturns ==
  \E r \in Cycles :
    /\ pc[r] = "await_primary"
    /\ LET output == ProcessInput(frames[r].primary_agent,
                                  frames[r].user_input, frames[r].enhanced)
           relevant_agents ==
             IdentifyRelevantAgents(frames[r].enhanced, domain_expertise_map,
                                    interaction_patterns)
       IN ResumeGather(r,
            [frames[r] EXCEPT
               !.primary_response = output,
               !.relevant_agents = relevant_agents,
               !.todo = relevant_agents],
            Returned(g_calls[r], output))
    /\ UNCHANGED <<registryVars, fixedVars, caller_context, holistic>>

\* The primary agent's process_input raises: the except branch.
PrimaryRaises ==
  \E r \in Cycles :
    /\ pc[r] = "await_primary"
    /\ ReturnError(r, frames[r], Raised(g_calls[r]), <<"process_input failed">>)
    /\ UNCHANGED <<registryVars, fixedVars, historyVars,
                   caller_context, holistic>>

\* A consulted agent's process_input returns: its response and confidence
\* are stored, and the loop goes on.
SecondaryReturns ==
  \E r \in Cycles :
    /\ pc[r] = "await_secondary"
    /\ LET output == ProcessInput(frames[r].agent,
                                  frames[r].user_input, frames[r].enhanced)
       IN ResumeGather(r,
            [frames[r] EXCEPT
               !.responses =
                  Append(@, [agent_id |-> frames[r].agent.agent_id,
                             response |-> output,
                             confidence |-> CalculateConfidence(output)])],
            Returned(g_calls[r], output))
    /\ UNCHANGED <<registryVars, fixedVars, caller_context, holistic>>

\* A consulted agent's process_input raises: nothing in
\* _gather_agent_responses catches it, so the except branch of
\* coordinate_response runs.
SecondaryRaises ==
  \E r \in Cycles :
    /\ pc[r] = "await_secondary"
    /\ ReturnError(r, frames[r], Raised(g_calls[r]), <<"process_input failed">>)
    /\ UNCHANGED <<registryVars, fixedVars, historyVars,
                   caller_context, holistic>>

(***************************************************************************)
(* generate_holistic_recommendations.  A call suspends only where          *)
(* _collect_agent_recommendations awaits a worker's                        *)
(* generate_recommendations.  It reads the history and writes none of it.  *)
(***************************************************************************)
\* the dict of the except branch
RecommendationsError(message) == [status |-> "error", error |-> message]

\* the dict of the try branch
RecommendationsResult(integrated_recommendations, enhanced_data) ==
  [status |-> "success",
   recommendations |-> integrated_recommendations,
   context |-> enhanced_data]

\* The loop of _collect_agent_recommendations from its present position to
\* its next await: the ids passed over before the next call are any of
\* those that are not registered now.
CollectSteps(todo, a) ==
  LET unregistered == {id \in todo : id \notin DOMAIN a}
      callable == {id \in todo : id \in DOMAIN a}
  IN {[kind |-> "call", agent_id |-> id,
       todo |-> todo \ (skipped \cup {id})] :
        id \in callable, skipped \in SUBSET unregistered}
     \cup (IF callable = {}
             THEN {[kind |-> "finish", agent_id |-> "none", todo |-> {}]}
             ELSE {})

\* _analyze_recommendation_relationships, _integrate_recommendations and the
\* return of the success dict; an exception of the analysis goes to the
\* except branch.
FinishRecommendations(r, call) ==
  LET all_recs == FlattenRecommendations(call.recommendations)
      analysis == AnalyzeRecommendationRelationships(call.recommendations)
  IN IF IdentifyConflictsRaises(all_recs)
       THEN holistic' = [holistic EXCEPT ![r] =
              [call EXCEPT !.pc = "done",
                           !.result = RecommendationsError(<<"TypeError">>)]]
       ELSE holistic' = [holistic EXCEPT ![r] =
              [call EXCEPT
                 !.pc = "done",
                 !.g_analysis = analysis,
                 !.result = RecommendationsResult(
                              IntegrateRecommendations(analysis), call.enhanced)]]

ResumeCollect(r, call) ==
  \E step \in CollectSteps(call.todo, agents) :
    IF step.kind = "call"
      THEN holistic' = [holistic EXCEPT ![r] =
             [call EXCEPT
                !.pc = "await_recommendations",
                !.todo = step.todo,
                !.agent = agents[step.agent_id],
                !.g_calls = Append(@, PendingCall(step.agent_id, "recommender"))]]
      ELSE FinishRecommendations(r, [call EXCEPT !.todo = {}, !.agent = NoneValue])

\* generate_holistic_recommendations from its entry to its first await:
\* _enhance_global_context, _identify_relevant_agents and the loop of
\* _collect_agent_recommendations up to its first call, or to the end.
generate_holistic_recommendations(r, user_data) ==
  /\ holistic[r].pc = "idle"
  /\ \A q \in RecCalls : q < r => holistic[q].pc # "idle"
  /\ CallsStarted < MaxCycles
  /\ LET enhanced_data ==
           EnhanceGlobalContext(user_data, context_history, decision_history,
                                domain_expertise_map)
         relevant_agents ==
           IdentifyRelevantAgents(enhanced_data, domain_expertise_map,
                                  interaction_patterns)
     IN ResumeCollect(r,
          [IdleHolistic EXCEPT
             !.user_data = user_data,
             !.caller_data =
                ContextAfterEnhance(user_data, context_history,
                                    decision_history, domain_expertise_map),
             !.enhanced = enhanced_data,
             !.relevant_agents = relevant_agents,
             !.todo = relevant_agents])
  /\ UNCHANGED <<registryVars, fixedVars, historyVars,
                 cycleVars, caller_context>>

RecommendStep ==
  \E r \in RecCalls, user_data \in CallerContexts :
    generate_holistic_recommendations(r, user_data)

\* A worker's generate_recommendations returns: its list is stored under
\* its id, and the loop goes on.
RecommendationsReturn ==
  \E r \in RecCalls :
    /\ holistic[r].pc = "await_recommendations"
    /\ LET agent_recs == GenerateRecommendations(holistic[r].agent,
                                                 holistic[r].enhanced)
       IN ResumeCollect(r,
            [holistic[r] EXCEPT
               !.recommendations =
                  Append(@, [agent_id |-> holistic[r].agent.agent_id,
                             recs |-> agent_recs]),
               !.g_calls = Returned(@, agent_recs)])
    /\ UNCHANGED <<registryVars, fixedVars, historyVars,
                   cycleVars, caller_context>>

\* A worker's generate_recommendations raises: nothing in
\* _collect_agent_recommendations catches it, so the except branch runs.
RecommendationsRaise ==
  \E r \in RecCalls :
    /\ holistic[r].pc = "await_recommendations"
    /\ holistic' = [holistic EXCEPT ![r] =
         [@ EXCEPT !.pc = "done",
                   !.g_calls = Raised(@),
                   !.result =
                      RecommendationsError(<<"generate_recommendations failed">>)]]
    /\ UNCHANGED <<registryVars, fixedVars, historyVars,
                   cycleVars, caller_context>>

\* The caller cancels the task that runs a coordinate_response call while
\* the call awaits a worker.  asyncio raises CancelledError at the await;
\* CancelledError derives from BaseException (Python 3.8 and later, which
\* the requirements of setup.py need), so except Exception does not catch
\* it: the call returns no dict, and nothing after the await runs.
CancelStep ==
  \E r \in Cycles :
    /\ pc[r] \in {"await_primary", "await_secondary"}
    /\ pc' = [pc EXCEPT ![r] = "cancelled"]
    /\ g_calls' = [g_calls EXCEPT ![r] = Cancelled(@)]
    /\ UNCHANGED <<frames, result, caller_context, holistic>>
    /\ UNCHANGED <<registryVars, fixedVars, historyVars>>

\* A caller registers a worker, before or between the steps of the calls.
SetupStep ==
  \E agent \in WorkerObjects :
    /\ register_agent(agent, MaxSetup)
    /\ UNCHANGED <<g_register, g_lookup, n_lookup>>
    /\ UNCHANGED <<fixedVars, historyVars, callVars>>

Next ==
  \/ SetupStep
  \/ CoordinateStep
  \/ PrimaryReturns
  \/ PrimaryRaises
  \/ SecondaryReturns
  \/ SecondaryRaises

Spec == Init /\ [][Next]_vars

SpecRegistry == Init /\ [][RegistryNext]_vars

\* coordinate_response on an orchestrator with stored patterns
NextStored ==
  \/ SetupStep
  \/ CoordinateStoredStep
  \/ PrimaryReturns
  \/ PrimaryRaises
  \/ SecondaryReturns
  \/ SecondaryRaises

SpecStored == InitStored /\ [][NextStored]_vars

\* Responses given to the helper methods called directly: the texts of at
\* most two atoms, plain, with structure, with a digit, long.
ProbeAtoms == {"advice", "plan:", "42", "essay", "salary: 5"}

ProbeResponses ==
  {EmptyText} \cup {<<a>> : a \in ProbeAtoms}
    \cup {<<a, b>> : a \in ProbeAtoms, b \in ProbeAtoms}

\* agent._calculate_confidence(response), called as _gather_agent_responses
\* calls it
ScoreStep ==
  \E response \in ProbeResponses :
    /\ g_probe.n < MaxProbe
    /\ g_probe' = [op |-> "calculate_confidence",
                   n |-> g_probe.n + 1,
                   response |-> response,
                   confidence |-> CalculateConfidence(response)]
    /\ UNCHANGED <<registryVars, constructedVars, historyVars, callVars>>

\* The registry of the direct calls of _integrate_responses: one worker
\* per id, each with the threshold of BaseAgent.
MergeAgents ==
  [id \in AgentIds |->
     CASE id = "a1" -> Worker("a1", {"career"}, <<"advice">>)
       [] id = "a2" -> Worker("a2", {"finance"}, <<"salary: 5">>)
       [] id = "a3" -> Worker("a3", {"finance", "health"}, <<"advice">>)]

\* The responses of the consulted agents in those calls: scores 0.0, 0.5,
\* 0.7 twice, 0.8 and 0.9.
MergeResponses ==
  {EmptyText, <<"advice">>, <<"42">>, <<"plan:">>, <<"essay", "42">>,
   <<"salary: 5">>}

MaxRelated == 3

\* The dicts related_responses that _gather_agent_responses can build: items
\* with different ids, in insertion order, each with the score of its
\* response.
RelatedResponses ==
  UNION {{[i \in 1 .. n |->
             [agent_id |-> items[i].agent_id,
              response |-> items[i].response,
              confidence |-> CalculateConfidence(items[i].response)]] :
            items \in {it \in [1 .. n -> [agent_id : AgentIds,
                                          response : MergeResponses]] :
                         \A i, j \in 1 .. n :
                           i # j => it[i].agent_id # it[j].agent_id}} :
         n \in 0 .. MaxRelated}

\* self._integrate_responses(primary_response, related_responses, context)
MergeStep ==
  \E primary_response \in {EmptyText, <<"advice">>},
     related_responses \in RelatedResponses :
    /\ g_probe.n < MaxProbe
    /\ g_probe' = [op |-> "integrate_responses",
                   n |-> g_probe.n + 1,
                   primary_response |-> primary_response,
                   related_responses |-> related_responses,
                   integrated |->
                     IntegrateResponses(primary_response, related_responses,
                                        MergeAgents)]
    /\ UNCHANGED <<registryVars, constructedVars, historyVars, callVars>>

\* Recommendations given to the analysis called directly: with and without
\* a type, with a positive priority, with priority 0 and with none.
ProbeRecommendations ==
  {[type |-> "invest", priority |-> PyInt(5)],
   [type |-> "invest", priority |-> PyInt(0)],
   [type |-> "exercise", priority |-> PyInt(2)],
   [type |-> "exercise"],
   [priority |-> PyInt(1)],
   [priority |-> PyInt(2)]}

MaxRecs == 3

\* self._analyze_recommendation_relationships(recommendations) on the
\* recommendations of one worker
AnalyzeStep ==
  \E n \in 0 .. MaxRecs :
    \E recs \in [1 .. n -> ProbeRecommendations] :
      LET recommendations == <<[agent_id |-> "a1", recs |-> recs]>>
      IN /\ g_probe.n < MaxProbe
         /\ g_probe' = [op |-> "analyze_recommendation_relationships",
                        n |-> g_probe.n + 1,
                        recommendations |-> recommendations,
                        analysis |->
                          AnalyzeRecommendationRelationships(recommendations)]
         /\ UNCHANGED <<registryVars, constructedVars, historyVars, callVars>>

\* the helper methods called directly
NextPure ==
  \/ ScoreStep
  \/ MergeStep
  \/ AnalyzeStep

SpecPure == Init /\ [][NextPure]_vars

\* construction from any config file, then the registry operations
SpecStartup == InitStartup /\ [][RegistryNext]_vars

\* coordinate_response and generate_holistic_recommendations together
NextHolistic ==
  \/ SetupStep
  \/ CoordinateStep
  \/ PrimaryReturns
  \/ PrimaryRaises
  \/ SecondaryReturns
  \/ SecondaryRaises
  \/ RecommendStep
  \/ RecommendationsReturn
  \/ RecommendationsRaise

SpecHolistic == Init /\ [][NextHolistic]_vars

\* coordinate_response with callers that may cancel
NextCancel ==
  \/ SetupStep
  \/ CoordinateStep
  \/ PrimaryReturns
  \/ PrimaryRaises
  \/ SecondaryReturns
  \/ SecondaryRaises
  \/ CancelStep

SpecCancel == Init /\ [][NextCancel]_vars

\* The workers whose process_input, once awaited, never completes.
HungAgentIds == {"a3"}

\* A process_input that a call awaits, of a worker that is not hung,
\* returns or raises.
ProcessInputCompletes ==
  /\ PrimaryReturns \/ PrimaryRaises \/ SecondaryReturns \/ SecondaryRaises
  /\ \E r \in Cycles :
       /\ g_calls'[r] # g_calls[r]
       /\ g_calls[r][Len(g_calls[r])].agent_id \notin HungAgentIds

\* Progress: the event loop resumes a call when the process_input it
\* awaits completes, and every process_input completes but that of a hung
\* worker, which stays pending for ever.
SpecLive ==
  /\ Init
  /\ [][Next]_vars
  /\ WF_vars(ProcessInputCompletes)

(***************************************************************************)
(* Properties.                                                             *)
(***************************************************************************)
Range(seq) == {seq[i] : i \in 1 .. Len(seq)}

\* The call r looked its primary agent up and found it.
PrimaryFound(r) == g_calls[r] # << >>

\* The primary agent's process_input returned in the call r / raised.
PrimaryReturned(r) == PrimaryFound(r) /\ g_calls[r][1].outcome = "returned"

PrimaryRaised(r) == PrimaryFound(r) /\ g_calls[r][1].outcome = "raised"

\* The call r returned without finding its primary agent registered.
PrimaryUnknown(r) == pc[r] = "done" /\ ~PrimaryFound(r)

\* The process_input calls the call r made on consulted agents.
SecondaryCalls(r) == {c \in Range(g_calls[r]) : c.role = "secondary"}

\* The decision points the call r created.
DecisionPointsOf(r) == {d \in Range(decision_history) : d.g_cycle = r}

\* C1: when the primary agent's process_input fails, the call leaves no
\* decision point behind: decision_history holds no record of that call.
C1_FailedPrimaryLeavesNoRecord ==
  \A r \in Cycles :
    (pc[r] = "done" /\ PrimaryRaised(r)) => DecisionPointsOf(r) = {}

\* C2: when a consulted agent's process_input fails, the call still returns
\* status success, with the responses of the agents that did not fail.
C2_FailedSecondaryIsDropped ==
  \A r \in Cycles :
    (pc[r] = "done" /\ \E c \in SecondaryCalls(r) : c.outcome = "raised")
      => /\ result[r].status = "success"
         /\ DOMAIN result[r].related_responses =
              {c.agent_id : c \in {x \in SecondaryCalls(r) : x.outcome = "returned"}}

\* C3: register_agent with an id that is already registered is rejected with
\* DuplicateWorkerError, and leaves the registry and the expertise map as
\* they were.
C3_DuplicateRejected ==
  (g_register.called /\ g_register.duplicate)
    => /\ g_register.raised = "DuplicateWorkerError"
       /\ agents = g_register.agents_before
       /\ domain_expertise_map = g_register.map_before

\* C4: a call whose primary agent is not registered, or whose primary
\* agent's process_input raises, returns a dict with status error and an
\* error field, and with no primary, related or integrated response.
C4_PrimaryFailureIsStructuredError ==
  \A r \in Cycles :
    (PrimaryUnknown(r) \/ PrimaryRaised(r))
      => /\ pc[r] = "done"
         /\ result[r].status = "error"
         /\ "error" \in DOMAIN result[r]
         /\ DOMAIN result[r] \cap
              {"primary_response", "related_responses", "integrated_response"} = {}

C4_Witness ==
  /\ \E r \in Cycles : PrimaryUnknown(r) /\ result[r].status = "error"
  /\ \E r \in Cycles : PrimaryRaised(r) /\ result[r].status = "error"

\* C5: the expertise map is what the registry gives: every tag's owner set is
\* the set of ids of the registered workers that declare the tag, and no tag
\* has an empty owner set.
C5_IndexDerivable ==
  /\ \A t \in DOMAIN domain_expertise_map : domain_expertise_map[t] # {}
  /\ \A t \in Tags :
       (IF t \in DOMAIN domain_expertise_map
          THEN domain_expertise_map[t] ELSE {})
       = {id \in DOMAIN agents : t \in agents[id].expertise_domains}

CallsOn(r, agent_id) ==
  {i \in 1 .. Len(g_calls[r]) : g_calls[r][i].agent_id = agent_id}

\* C8: the consulted agents never include the primary: no related response
\* is keyed by the primary's id, no consulted-agent call is made on it, and
\* a call that found its primary agent invokes its process_input once.
C8_PrimaryExcluded ==
  \A r \in Cycles :
    LET primary_agent_id == frames[r].primary_agent_id
    IN /\ \A c \in SecondaryCalls(r) : c.agent_id # primary_agent_id
       /\ result[r].status = "success"
            => primary_agent_id \notin DOMAIN result[r].related_responses
       /\ PrimaryFound(r) => Cardinality(CallsOn(r, primary_agent_id)) = 1

\* A successful call whose relevant agents held the primary and another.
C8_Witness ==
  \E r \in Cycles :
    /\ result[r].status = "success"
    /\ frames[r].primary_agent_id \in frames[r].relevant_agents
    /\ DOMAIN result[r].related_responses # {}

\* C9: in a success result primary_response is what the primary agent's
\* process_input returned; and with the primary the only registered worker,
\* a call whose primary returns ends with status success and no related
\* responses.
C9_PrimaryResponseVerbatim ==
  \A r \in Cycles :
    /\ result[r].status = "success"
         => /\ PrimaryReturned(r)
            /\ result[r].primary_response =
                 ProcessInput(frames[r].primary_agent, frames[r].user_input,
                              frames[r].enhanced)
            /\ result[r].primary_response = g_calls[r][1].output
    /\ (pc[r] = "done" /\ PrimaryReturned(r)
          /\ DOMAIN agents = {frames[r].primary_agent_id})
         => /\ result[r].status = "success"
            /\ DOMAIN result[r].related_responses = {}

\* One successful call with no related response, and one whose integrated
\* response has an insight merged after a non-empty primary response.
C9_Witness ==
  /\ \E r \in Cycles :
       /\ result[r].status = "success"
       /\ DOMAIN result[r].related_responses = {}
       /\ result[r].primary_response = <<"advice">>
  /\ \E r \in Cycles :
       /\ result[r].status = "success"
       /\ result[r].primary_response # EmptyText
       /\ result[r].integrated_response # result[r].primary_response

\* The enhanced context without the caller's key.
WithoutKey(enhanced, key) ==
  [enhanced EXCEPT !.caller =
     [k \in DOMAIN enhanced.caller \ {key} |-> enhanced.caller[k]]]

\* C10: at the step that computes the relevant agents of a call whose
\* context has an industry field, every registered worker other than the
\* primary that declares that capability is among them; and when the
\* expertise map has no entry for the capability, the step does not fail and
\* the relevant agents are those of the same context without the field.
C10_CapabilityMatch ==
  [][\A r \in Cycles :
       (/\ pc[r] = "await_primary"
        /\ pc'[r] # "await_primary"
        /\ g_calls'[r][1].outcome = "returned"
        /\ "industry" \in DOMAIN frames[r].context)
       => LET capability == frames[r].context["industry"]
              primary_agent_id == frames[r].primary_agent_id
              secondary == frames'[r].relevant_agents \ {primary_agent_id}
          IN /\ \A id \in DOMAIN agents :
                  (id # primary_agent_id
                     /\ capability \in agents[id].expertise_domains)
                    => id \in secondary
             /\ capability \notin DOMAIN domain_expertise_map
                  => /\ pc'[r] = "done" => result'[r].status = "success"
                     /\ frames'[r].relevant_agents =
                          IdentifyRelevantAgents(
                            WithoutKey(frames[r].enhanced, "industry"),
                            domain_expertise_map, interaction_patterns)
    ]_vars

\* Workers declaring {career} and {finance}, the context {industry: finance},
\* the career worker primary, empty history: the finance worker is relevant.
C10_Witness ==
  \E r \in Cycles :
    /\ PrimaryReturned(r)
    /\ frames[r].context = [industry |-> "finance"]
    /\ frames[r].primary_agent = Worker("a1", {"career"}, <<"advice">>)
    /\ frames[r].enhanced.global_patterns.empty
    /\ frames[r].enhanced.cross_domain_insights = {"career", "finance"}
    /\ "a2" \in frames[r].relevant_agents

\* The keys that _enhance_global_context assigns.
DigestKeys == {"global_patterns", "cross_domain_insights", "temporal_context"}

\* C11: enhancement never changes the caller's dict: from the moment a
\* coordinate_response or generate_holistic_recommendations call has run its
\* enhancement, and so when it has returned with success or with an error,
\* the dict the caller passed has the keys and values it was passed with,
\* none of them a digest; the digests are in the enhanced context, which
\* holds the caller's keys and values beside them.
C11_CallerContextUntouched ==
  /\ \A r \in Cycles :
       pc[r] # "idle"
         => /\ caller_context[r] = frames[r].context
            /\ DOMAIN caller_context[r] \cap DigestKeys = {}
            /\ PrimaryFound(r) => frames[r].enhanced.caller = frames[r].context
  /\ \A r \in RecCalls :
       holistic[r].pc # "idle"
         => /\ holistic[r].caller_data = holistic[r].user_data
            /\ DOMAIN holistic[r].caller_data \cap DigestKeys = {}
            /\ holistic[r].enhanced.caller = holistic[r].user_data

\* A coordinate_response call that returned success and a
\* generate_holistic_recommendations call that returned, both given a dict
\* with a key, the second enhanced with digests that are not empty.
C11_Witness ==
  /\ \E r \in Cycles :
       /\ result[r].status = "success"
       /\ DOMAIN caller_context[r] # {}
  /\ \E r \in RecCalls :
       /\ holistic[r].pc = "done"
       /\ DOMAIN holistic[r].caller_data # {}
       /\ ~holistic[r].enhanced.global_patterns.empty

\* C12: the enhancement does not fail on an empty history and writes
\* nothing to the history.  The step of generate_holistic_recommendations
\* that runs it leaves context_history, decision_history and
\* interaction_patterns as they were; the step of coordinate_response that
\* runs it changes them by the decision point appended before it and by
\* nothing else; and on an empty context_history the step does not end in
\* an error and the digests of the enhanced context are empty, with no
\* recent interaction.
C12_EnhanceReadsOnly ==
  [][
      /\ \A r \in RecCalls :
          (holistic[r].pc = "idle" /\ holistic'[r].pc # "idle")
            => /\ UNCHANGED <<context_history, decision_history,
                              fixedVars>>
               /\ context_history = << >>
                    => /\ holistic'[r].result.status # "error"
                       /\ holistic'[r].enhanced.global_patterns.empty
                       /\ holistic'[r].enhanced.global_patterns.strings = {}
                       /\ holistic'[r].enhanced.temporal_context.empty
                       /\ holistic'[r].enhanced.temporal_context.recent_interactions = 0
      /\ \A r \in Cycles :
          (pc[r] = "idle" /\ pc'[r] # "idle"
             /\ frames'[r].primary_agent_id \in DOMAIN agents)
            => /\ UNCHANGED <<context_history, fixedVars>>
               /\ decision_history' =
                    Append(decision_history,
                           CreateDecisionPoint(r, frames'[r].user_input,
                                               frames'[r].primary_agent_id,
                                               frames'[r].context))
               /\ pc'[r] = "await_primary"
               /\ context_history = << >>
                    => /\ frames'[r].enhanced.global_patterns.empty
                       /\ frames'[r].enhanced.temporal_context.empty
                       /\ frames'[r].enhanced.temporal_context.recent_interactions = 0
    ]_vars

\* A generate_holistic_recommendations call that returned success on an
\* orchestrator with registered workers and no history.
C12_Witness ==
  \E r \in RecCalls :
    /\ holistic[r].result.status = "success"
    /\ context_history = << >>
    /\ decision_history = << >>
    /\ DOMAIN agents # {}
    /\ holistic[r].enhanced.temporal_context.empty
    /\ holistic[r].enhanced.cross_domain_insights # {}

\* The recommendations a returned list carries: those that are its items
\* and those that its items hold.
RecommendationsIn(list) ==
  Range(list)
    \cup UNION {{x.rec1, x.rec2} : x \in {y \in Range(list) : "rec1" \in DOMAIN y}}
    \cup UNION {{x.dependent, x.prerequisite} :
                  x \in {y \in Range(list) : "dependent" \in DOMAIN y}}

\* The generate_recommendations calls of the call r all returned.
AllRecommendersReturned(r) ==
  \A i \in 1 .. Len(holistic[r].g_calls) :
    holistic[r].g_calls[i].outcome = "returned"

\* The recommendations the workers produced for the call r.
Collected(r) == FlattenRecommendations(holistic[r].recommendations)

C14_HigherPrioritySurvives ==
  \A r \in RecCalls :
    \A rec5, rec3 \in Range(Collected(r)) :
      (/\ holistic[r].result.status = "success"
       /\ RecType(rec5) = RecType(rec3)
       /\ RecPriority(rec5) = PyInt(5)
       /\ RecPriority(rec3) = PyInt(3))
      => /\ \E c \in Range(holistic[r].g_analysis.conflicts) :
              {c.rec1, c.rec2} = {rec5, rec3}
         /\ rec5 \in Range(holistic[r].result.recommendations)
         /\ rec3 \notin RecommendationsIn(holistic[r].result.recommendations)

\* C15: when one worker was consulted and its generate_recommendations
\* returned one item, the call returns status success with a list of one
\* item, which carries the agent_id of that worker.
C15_WorkerRecommendationsReturned ==
  \A r \in RecCalls :
    (/\ holistic[r].pc = "done"
     /\ AllRecommendersReturned(r)
     /\ Len(holistic[r].recommendations) = 1
     /\ Len(Collected(r)) = 1)
    => /\ holistic[r].result.status = "success"
       /\ Len(holistic[r].result.recommendations) = 1
       /\ "agent_id" \in DOMAIN holistic[r].result.recommendations[1]
       /\ holistic[r].result.recommendations[1].agent_id =
            holistic[r].recommendations[1].agent_id

\* C16: when the workers' generate_recommendations all returned and one of
\* the items has a priority that is no number, the call returns status
\* success, not status error.
C16_MalformedItemSkipped ==
  \A r \in RecCalls :
    (/\ holistic[r].pc = "done"
     /\ AllRecommendersReturned(r)
     /\ \E rec \in Range(Collected(r)) : ~IsNumber(RecPriority(rec)))
    => holistic[r].result.status = "success"

\* C17: the history only grows at its end: no step makes context_history
\* or decision_history shorter, every record of context_history stays as it
\* is where it is, and every decision point stays where it is, the same
\* decision point of the same call.
C17_AppendOnly ==
  [][
      /\ Len(context_history') >= Len(context_history)
      /\ Len(decision_history') >= Len(decision_history)
      /\ \A i \in 1 .. Len(context_history) :
           context_history'[i] = context_history[i]
      /\ \A i \in 1 .. Len(decision_history) :
           /\ decision_history'[i].g_cycle = decision_history[i].g_cycle
           /\ decision_history'[i].user_input = decision_history[i].user_input
           /\ decision_history'[i].primary_agent = decision_history[i].primary_agent
           /\ decision_history'[i].initial_context = decision_history[i].initial_context
    ]_vars

\* A coordinate_response call has appended to both histories, and a
\* generate_holistic_recommendations call has then run on them.
C17_Witness ==
  /\ Len(context_history) = 1
  /\ Len(decision_history) = 1
  /\ \E r \in RecCalls :
       /\ holistic[r].pc = "done"
       /\ ~holistic[r].enhanced.global_patterns.empty

\* C18: a coordinate_response call that has returned has left its decision
\* point with an outcome attached.
C18_OutcomeAttached ==
  \A r \in Cycles :
    pc[r] = "done" => \A d \in DecisionPointsOf(r) : d.has_outcome

\* C19: a call that awaits a consulted agent returns in the end, whether
\* that agent's process_input ever completes or not.
C19_HungSecondaryDoesNotBlock ==
  \A r \in Cycles : (pc[r] = "await_secondary") ~> (pc[r] = "done")

\* C20: a call that was cancelled while it awaited a worker has left no
\* decision point without an outcome in decision_history.
C20_CancelLeavesNoPartialRecord ==
  \A r \in Cycles :
    pc[r] = "cancelled" => \A d \in DecisionPointsOf(r) : d.has_outcome

\* The calls that returned a success dict.
Succeeded == {r \in Cycles : result[r].status = "success"}

\* C21: calls that interleave at their awaits lose no history entry: every
\* call made has its one decision point, context_history has one record per
\* call that succeeded, and the decision point of a call that succeeded
\* carries the outcome of that call, its own integrated response, which is
\* also the response of one of the context records together with the
\* call's own enhanced context.
C21_NoLostAppend ==
  /\ Len(decision_history) = Cardinality({r \in Cycles : pc[r] # "idle"})
  /\ Len(context_history) = Cardinality(Succeeded)
  /\ \A r \in Cycles :
       pc[r] # "idle" => Cardinality(DecisionPointsOf(r)) = 1
  /\ \A r \in Succeeded :
       /\ \A d \in DecisionPointsOf(r) :
            /\ d.has_outcome
            /\ d.response = result[r].integrated_response
            /\ d.success_metrics =
                 CalculateSuccessMetrics(result[r].integrated_response)
            /\ d.initial_context = frames[r].context
       /\ \E i \in 1 .. Len(context_history) :
            /\ context_history[i].response = result[r].integrated_response
            /\ context_history[i].context = frames[r].enhanced

\* Two calls that were in flight together and both succeeded, with
\* different responses: the call made first finished last.
C21_Witness ==
  /\ Succeeded = {1, 2}
  /\ decision_history[1].g_cycle = 1
  /\ context_history[1].context = frames[2].enhanced
  /\ context_history[2].context = frames[1].enhanced
  /\ frames[1].context # frames[2].context
  /\ result[1].integrated_response # result[2].integrated_response

\* C30: the success patterns are exactly the decision points of completed
\* cycles whose integrated response is not empty; a decision point without
\* a recorded outcome (cycle in flight, or failed) is never one of them,
\* and every pattern's recorded metrics meet the three thresholds.
C30_SuccessPatternsAreCompleted ==
  \A i \in 1 .. Len(decision_history) :
    LET d == decision_history[i]
    IN /\ i \in AnalyzeSuccessPatterns(decision_history)
            <=> /\ d.has_outcome
                /\ result[d.g_cycle].status = "success"
                /\ result[d.g_cycle].integrated_response # EmptyText
       /\ i \in AnalyzeSuccessPatterns(decision_history)
            => /\ d.success_metrics.confidence >= 7
               /\ d.success_metrics.relevance >= 6
               /\ d.success_metrics.actionability >= 5
       /\ ~d.has_outcome => d.success_metrics = EmptyDict

\* The first call is still waiting for a worker, the second one completed
\* with text: only the second is a success pattern, and a later
\* enhancement would read it (context_history is not empty).
C30_Witness ==
  /\ Len(decision_history) = 2
  /\ pc[decision_history[1].g_cycle] \in {"await_primary", "await_secondary"}
  /\ ~decision_history[1].has_outcome
  /\ decision_history[2].has_outcome
  /\ AnalyzeSuccessPatterns(decision_history) = {2}
  /\ context_history # << >>

\* C27: when the analysis of a call ran, every two collected recommendations
\* of which one requires a skill that the other provides are recorded as a
\* dependency, whichever of the two comes first in the flattened list.
C27_DependencyEitherDirection ==
  \A r \in RecCalls :
    holistic[r].result.status = "success"
      => \A i, j \in 1 .. Len(Collected(r)) :
           LET rec1 == Collected(r)[i]
               rec2 == Collected(r)[j]
           IN (/\ i < j
               /\ \/ RecSkills(rec1, "required_skills")
                       \cap RecSkills(rec2, "provided_skills") # {}
                  \/ RecSkills(rec2, "required_skills")
                       \cap RecSkills(rec1, "provided_skills") # {})
              => \E d \in Range(holistic[r].g_analysis.dependencies) :
                   {d.dependent, d.prerequisite} = {rec1, rec2}

\* C22: after construction the orchestrator has a defined ruleset, and the
\* ruleset is empty when the rules file does not parse and when there is no
\* rules file.
C22_RulesFallBackToEmpty ==
  /\ orchestration_rules # Unset
  /\ g_config_file \in {"missing", "malformed"}
       => orchestration_rules = EmptyDict

\* The keys that a stored pattern's context shares with the context of r.
SharedKeys(r, pattern) ==
  DOMAIN pattern.context \cap DOMAIN frames[r].enhanced.caller

\* The stored pattern agrees with the context of the call r on every key
\* that the two share.
MatchesOnSharedKeys(r, pattern) ==
  \A key \in SharedKeys(r, pattern) :
    frames[r].enhanced.caller[key] = pattern.context[key]

\* C23: at the step that computes the relevant agents of a call, an id is
\* relevant only if the capability match gives it or a stored pattern that
\* agrees with the call's context on every shared key lists it: a pattern
\* that differs from the context on a shared key contributes nothing.
C23_PatternMatchesWholeSubset ==
  [][\A r \in Cycles :
       (/\ pc[r] = "await_primary"
        /\ pc'[r] # "await_primary"
        /\ g_calls'[r][1].outcome = "returned")
       => frames'[r].relevant_agents \subseteq
            IdentifyRelevantAgents(frames[r].enhanced, domain_expertise_map,
                                   << >>)
            \cup UNION {pattern.successful_agents :
                          pattern \in {p \in Range(interaction_patterns) :
                                         MatchesOnSharedKeys(r, p)}}
    ]_vars

\* C28: every key of related_responses in a success result is the id of a
\* registered worker other than the primary, and no call ends in the
\* KeyError of the merge step's threshold lookup.
C28_RelatedAreRegistered ==
  \A r \in Cycles :
    /\ result[r].status = "success"
         => \A id \in DOMAIN result[r].related_responses :
              /\ id \in DOMAIN agents
              /\ id # frames[r].primary_agent_id
    /\ result[r].status = "error" => result[r].error # <<"KeyError">>

\* A successful call whose relevant agents held an id that a stored pattern
\* contributed and that is not registered, beside a worker that answered.
C28_Witness ==
  \E r \in Cycles :
    /\ result[r].status = "success"
    /\ "a9" \in frames[r].relevant_agents
    /\ "a9" \notin DOMAIN agents
    /\ DOMAIN result[r].related_responses # {}

\* The score that the three predicates give: base 0.5, 0.1 for more than 50
\* words, 0.2 for structure, 0.2 for a digit, at most 1.0 (in tenths).
ScoreOfPredicates(response) ==
  LET sum == 5 + (IF WordCount(response) > 50 THEN 1 ELSE 0)
               + (IF \E a \in Atoms(response) : a \in StructureAtoms
                    THEN 2 ELSE 0)
               + (IF \E a \in Atoms(response) : a \in DigitAtoms
                    THEN 2 ELSE 0)
  IN IF sum > 10 THEN 10 ELSE sum

Passing(related_responses, a) ==
  {i \in 1 .. Len(related_responses) :
     related_responses[i].confidence
       >= a[related_responses[i].agent_id].confidence_threshold}

\* The position i comes before the position j in descending confidence,
\* ties in invocation order.
ComesBefore(related_responses, i, j) ==
  \/ related_responses[i].confidence > related_responses[j].confidence
  \/ /\ related_responses[i].confidence = related_responses[j].confidence
     /\ i < j

\* The passing position that has k - 1 passing positions before it.
PassingAt(related_responses, a, k) ==
  CHOOSE i \in Passing(related_responses, a) :
    Cardinality({j \in Passing(related_responses, a) :
                   ComesBefore(related_responses, j, i)}) = k - 1

\* The blocks of the passing positions from the k-th on.
RECURSIVE BlocksFrom(_, _, _)
BlocksFrom(related_responses, a, k) ==
  IF k > Cardinality(Passing(related_responses, a)) THEN << >>
  ELSE <<"Additional insight:">>
         \o related_responses[PassingAt(related_responses, a, k)].response
         \o BlocksFrom(related_responses, a, k + 1)

DeclaredConflict(rec1, rec2) ==
  /\ "type" \in DOMAIN rec1
  /\ "type" \in DOMAIN rec2
  /\ rec1.type = rec2.type
  /\ RecPriority(rec1).int > 0
  /\ RecPriority(rec2).int > 0

\* C26: the analysis records one conflict for each pair of positions i < j
\* of the flattened list whose recommendations have equal declared types
\* and priorities above 0, in the order of the pairs, and no other: two
\* recommendations without a type are no conflict.
C26_ConflictIffEqualTypeAndPriority ==
  g_probe.op = "analyze_recommendation_relationships"
    => LET all_recs == FlattenRecommendations(g_probe.recommendations)
           Declared(p) == DeclaredConflict(all_recs[p[1]], all_recs[p[2]])
           declared == SelectSeq(Pairs(all_recs), Declared)
       IN g_probe.analysis.conflicts =
            [k \in 1 .. Len(declared) |->
               ConflictRecord(all_recs[declared[k][1]],
                              all_recs[declared[k][2]])]

\* The step of the call r at which its primary agent returns and the
\* relevant agents are computed.
RelevanceStep(r) ==
  /\ pc[r] = "await_primary"
  /\ pc'[r] # "await_primary"
  /\ g_calls'[r][1].outcome = "returned"

\* The ids that the expertise map lists under finance and under no other
\* capability, and whose worker declares finance only.
FinanceOnly ==
  {id \in DOMAIN agents :
     /\ agents[id].expertise_domains = {"finance"}
     /\ \A domain \in DOMAIN domain_expertise_map :
          id \in domain_expertise_map[domain] => domain = "finance"}

\* One of the strings holds a finance keyword.
HoldsFinanceTrigger(strings) ==
  \E keyword \in DomainKeywords["finance"], str \in strings :
    <<keyword, str>> \in Occurs

\* The caller's context names finance in its industry field.
NamesFinance(context) ==
  /\ "industry" \in DOMAIN context
  /\ context["industry"] = "finance"

\* A worker that declares career or health, is not the primary, and was
\* registered when the call r was made, is relevant at the relevance step
\* of r, whatever the caller's context.
CareerAndHealthAlwaysRelevant(r) ==
  \A id \in DOMAIN agents \ {frames[r].primary_agent_id} :
    \A domain \in {"career", "health"} :
      (/\ domain \in agents[id].expertise_domains
       /\ domain \in frames[r].enhanced.cross_domain_insights)
      => id \in frames'[r].relevant_agents

\* A call that ends with success has invoked every relevant agent other
\* than its primary.
RelevantWereInvoked(r) ==
  result'[r].status = "success"
    => frames'[r].relevant_agents \ {frames'[r].primary_agent_id}
         = DOMAIN result'[r].related_responses

====
